---------------------------- MODULE Spec2Model ----------------------------
(***************************************************************************)
(* Model of src/src/commands/mod.rs: the command-definition data model     *)
(* (Opt, Argument, CommandDefinition), its constructors and its read-only  *)
(* lookup and dispatch operations.                                         *)
(*                                                                         *)
(* Strings are TLA+ strings (Len is the byte length str::len returns for   *)
(* the ASCII names used here).  A reference into a Vec (&Opt) is the index *)
(* of the element in the Vec that owns it.  A HashMap is the set of its    *)
(* <<key, value>> entries.  A panic aborts the process: no action is       *)
(* enabled afterwards.                                                     *)
(***************************************************************************)
EXTENDS Integers, Sequences, FiniteSets

VARIABLES
    names_in,        \* the alias lists the driver hands to Opt::new_bool, in call order
    built_opts,      \* the Vec<Opt> the driver has built so far
    arguments_in,    \* the Vec<Argument> handed to CommandDefinition::new
    subcommands_in,  \* the Vec<Box<Command>> handed to CommandDefinition::new
    run_in,          \* the execution callback (RunFn) of the definition
    def,             \* the CommandDefinition, NoDef before construction
    panicked,        \* TRUE once a constructor panicked
    call,            \* the last operation called: [op, arg]
    ret,             \* what that operation returned
    invoked          \* the Requests the callback was invoked with during that call

vars == <<names_in, built_opts, arguments_in, subcommands_in, run_in, def,
          panicked, call, ret, invoked>>

---------------------------------------------------------------------------
(* Bounds of the model *)

\* longest alias list handed to one Opt::new_bool call (SpecOpt)
MaxNames == 3
\* most Opts of one definition, and longest alias list of each (SpecOptions)
MaxOpts == 2
MaxOptNames == 2
\* most Arguments of one definition (SpecArgs)
MaxArgs == 2
\* most subcommands handed to one definition (SpecSub)
MaxSubs == 2
\* number of distinct Requests the dispatcher may pass to run
NumRequests == 3

\* aliases the single Opt of SpecOpt is built from: two pairs of equal length
AliasNames == {"v", "q", "vv", "verbose"}
\* aliases the Opts of SpecOptions are built from
OptAliases == {"h", "help"}
\* names looked up with get_option
OptLookups == {"h", "help", "he", "x"}
\* names subcommands are registered under
SubNames == {"add", "ad", "ADD"}
\* names looked up with subcommand: registered ones, a prefix, an extension,
\* another case, an unrelated one
SubLookups == {"add", "ad", "adds", "ADD", "rm"}
Requests == 1..NumRequests

\* all sequences over S of length lo..hi
SeqsOf(S, lo, hi) == UNION {[1..n -> S] : n \in lo..hi}

---------------------------------------------------------------------------
(* Values *)

None == [some |-> FALSE]
Some(v) == [some |-> TRUE, val |-> v]
Ok == [ok |-> TRUE]
Err(s) == [ok |-> FALSE, err |-> s]
Panic == [panic |-> TRUE]
NoDef == [nodef |-> TRUE]
NoCall == [op |-> "none", arg |-> 0]
Unit == [unit |-> TRUE]

---------------------------------------------------------------------------
(* Opt *)

\* where x goes in a slice already sorted by length: behind every element
\* that is not longer, so that equal-length elements keep their order
InsertByLen(s, x) ==
    LET k == Cardinality({i \in 1..Len(s) : Len(s[i]) <= Len(x)})
    IN  SubSeq(s, 1, k) \o <<x>> \o SubSeq(s, k + 1, Len(s))

RECURSIVE SortPrefix(_, _)
SortPrefix(names, n) ==
    IF n = 0 THEN <<>> ELSE InsertByLen(SortPrefix(names, n - 1), names[n])

\* mutant: an unstable sort, equal-length elements end up reversed
sort_by_unstable(names) ==
    LET RECURSIVE Go(_)
        Go(n) ==
            IF n = 0 THEN <<>>
            ELSE LET s == Go(n - 1)
                     x == names[n]
                     k == Cardinality({i \in 1..Len(s) : Len(s[i]) < Len(x)})
                 IN  SubSeq(s, 1, k) \o <<x>> \o SubSeq(s, k + 1, Len(s))
    IN  Go(Len(names))

\* mutant: the sort is missing
sort_by_missing(names) == names

\* names.sort_by(|a, b| a.len().cmp(&b.len())): slice::sort_by is stable
sort_by(names) == SortPrefix(names, Len(names))

\* mutant: the canonical name is taken after the sort
Opt_new_canonical_after_sort(names, opt_type, desc) ==
    IF Len(names) = 0 THEN Panic
    ELSE [name |-> sort_by(names)[1], names |-> sort_by(names),
          opt_type |-> opt_type, description |-> desc]

\* mutant: an empty alias list is accepted
Opt_new_unchecked(names, opt_type, desc) ==
    [name |-> IF Len(names) = 0 THEN "" ELSE names[1], names |-> sort_by(names),
     opt_type |-> opt_type, description |-> desc]

\* Opt::new: names[0] panics (index out of bounds) on an empty Vec
Opt_new(names, opt_type, desc) ==
    IF Len(names) = 0 THEN Panic
    ELSE LET canonical == names[1]
         IN  [name |-> canonical, names |-> sort_by(names),
              opt_type |-> opt_type, description |-> desc]

Opt_new_bool(names, desc) == Opt_new(names, "Bool", desc)

Opt_name(o) == o.name

---------------------------------------------------------------------------
(* Argument *)

Argument_new(name, ty, required, variadic, desc) ==
    [name |-> name, ty |-> ty, required |-> required, variadic |-> variadic,
     description |-> desc]

Argument_new_file(name, required, variadic, desc) ==
    Argument_new(name, "File", required, variadic, desc)

Argument_new_string(name, required, variadic, desc) ==
    Argument_new(name, "String", required, variadic, desc)

---------------------------------------------------------------------------
(* HashMap, as the set of its <<key, value>> entries *)

\* mutant: an entry already present under the key is kept (first write wins)
HashMap_insert_keep_first(m, k, v) ==
    IF \E e \in m : e[1] = k THEN m ELSE m \cup {<<k, v>>}

\* HashMap::insert: the value of an entry with an equal key is replaced
HashMap_insert(m, k, v) == {e \in m : e[1] # k} \cup {<<k, v>>}

\* FromIterator for HashMap (collect): the pairs are inserted in iteration order
RECURSIVE HashMap_collect(_, _)
HashMap_collect(pairs, n) ==
    IF n = 0 THEN {}
    ELSE HashMap_insert(HashMap_collect(pairs, n - 1), pairs[n][1], pairs[n][2])

\* HashMap::get: the value of the entry whose key equals k
HashMap_get(m, k) ==
    IF \E e \in m : e[1] = k THEN Some((CHOOSE e \in m : e[1] = k)[2]) ELSE None

---------------------------------------------------------------------------
(* CommandDefinition *)

\* a boxed Command: the name its definition declares and the identity of the box
Command(name, id) == [name |-> name, id |-> id]

\* cmd.name() in CommandDefinition::new
Command_name(cmd) == cmd.name

HelpTextValue == [tagline |-> "t", short_desc |-> "s", synopsis |-> "y"]

\* position of the first variadic argument, the last position when there is none
FirstVariadic(arguments) ==
    LET vs == {i \in 1..Len(arguments) : arguments[i].variadic}
    IN  IF vs = {} THEN Len(arguments)
        ELSE CHOOSE i \in vs : \A j \in vs : i <= j

\* mutant: the arguments behind the first variadic one are dropped
CommandDefinition_new_validating(name, options, arguments, help_text, subcommands) ==
    [name |-> name,
     options |-> options,
     arguments |-> SubSeq(arguments, 1, FirstVariadic(arguments)),
     help_text |-> help_text,
     subcommands |->
        HashMap_collect([i \in 1..Len(subcommands) |->
                            <<Command_name(subcommands[i]), subcommands[i]>>],
                        Len(subcommands))]

\* CommandDefinition::new
CommandDefinition_new(name, options, arguments, help_text, subcommands) ==
    [name |-> name,
     options |-> options,
     arguments |-> arguments,
     help_text |-> help_text,
     subcommands |->
        HashMap_collect([i \in 1..Len(subcommands) |->
                            <<Command_name(subcommands[i]), subcommands[i]>>],
                        Len(subcommands))]

\* the definition with its execution callback stored in the field run reads
with_run(d, f) ==
    [name |-> d.name, options |-> d.options, arguments |-> d.arguments,
     help_text |-> d.help_text, subcommands |-> d.subcommands, run |-> f]

\* the pairs options() pushes for the first n Opts
RECURSIVE options_upto(_, _)
options_upto(d, n) ==
    IF n = 0 THEN <<>>
    ELSE options_upto(d, n - 1) \o
         [k \in 1..Len(d.options[n].names) |-> <<d.options[n].names[k], n>>]

\* mutant: one pair per Opt, under its first name only
CommandDefinition_options_first_name(d) ==
    [n \in 1..Len(d.options) |-> <<d.options[n].names[1], n>>]

\* CommandDefinition::options
CommandDefinition_options(d) == options_upto(d, Len(d.options))

\* the scan of get_option from Opt i on
RECURSIVE scan_options(_, _, _)
scan_options(d, name, i) ==
    IF i > Len(d.options) THEN None
    ELSE IF \E k \in 1..Len(d.options[i].names) : name = d.options[i].names[k]
         THEN Some(i)
         ELSE scan_options(d, name, i + 1)

\* mutant: only the canonical name of each Opt is compared
get_option_canonical_only(d, name) ==
    LET hits == {i \in 1..Len(d.options) : name = d.options[i].name}
    IN  IF hits = {} THEN None ELSE Some(CHOOSE i \in hits : \A j \in hits : i <= j)

\* CommandDefinition::get_option
get_option(d, name) == scan_options(d, name, 1)

\* the alias -> Opt projection: an entry is inserted for every alias of every
\* Opt, in the order of the Opts
alias_projection(options) ==
    LET pairs == options_upto([options |-> options], Len(options))
    IN  HashMap_collect(pairs, Len(pairs))

\* lookup of an alias in the projection
projection_get(d, name) == HashMap_get(alias_projection(d.options), name)

\* whether a is a proper or improper prefix of b
IsPrefix(a, b) == Len(a) <= Len(b) /\ SubSeq(b, 1, Len(a)) = a

\* mutant: a registered name the given one is a prefix of matches too
subcommand_prefix(d, subcmd) ==
    IF \E e \in d.subcommands : IsPrefix(subcmd, e[1])
    THEN Some((CHOOSE e \in d.subcommands : IsPrefix(subcmd, e[1]))[2])
    ELSE None

\* CommandDefinition::subcommand
subcommand(d, subcmd) == HashMap_get(d.subcommands, subcmd)

\* CommandDefinition::arguments
arguments(d) == d.arguments

\* mutant: an error of the callback is wrapped
run_wrapping(d, req) ==
    [result |-> IF d.run[req].ok THEN Ok ELSE Err("error: " \o d.run[req].err),
     invoked |-> <<req>>]

\* CommandDefinition::run: the result of the call and the Requests the
\* callback was invoked with
run(d, req) == [result |-> d.run[req], invoked |-> <<req>>]

---------------------------------------------------------------------------
(* Operations *)

CmdName == "cmd"
Desc == "d"

inputs == <<names_in, arguments_in, subcommands_in, run_in>>

\* the driver's next Opt::new_bool call
NewBool ==
    /\ ~panicked
    /\ def = NoDef
    /\ Len(built_opts) < Len(names_in)
    /\ LET i == Len(built_opts) + 1
           o == Opt_new_bool(names_in[i], Desc)
       IN  /\ call' = [op |-> "Opt::new_bool", arg |-> i]
           /\ ret' = o
           /\ IF o = Panic
              THEN panicked' = TRUE /\ built_opts' = built_opts
              ELSE panicked' = FALSE /\ built_opts' = Append(built_opts, o)
    /\ invoked' = <<>>
    /\ UNCHANGED <<inputs, def>>

\* Opt::name of the i-th Opt built
OptName(i) ==
    /\ ~panicked
    /\ i \in 1..Len(built_opts)
    /\ call' = [op |-> "Opt::name", arg |-> i]
    /\ ret' = Opt_name(built_opts[i])
    /\ invoked' = <<>>
    /\ UNCHANGED <<inputs, built_opts, def, panicked>>

\* CommandDefinition::new over the Opts built and the other inputs
New ==
    /\ ~panicked
    /\ def = NoDef
    /\ Len(built_opts) = Len(names_in)
    /\ def' = with_run(CommandDefinition_new(CmdName, built_opts, arguments_in,
                                             HelpTextValue, subcommands_in),
                       run_in)
    /\ call' = [op |-> "CommandDefinition::new", arg |-> 0]
    /\ ret' = Unit
    /\ invoked' = <<>>
    /\ UNCHANGED <<inputs, built_opts, panicked>>

Options ==
    /\ ~panicked
    /\ def # NoDef
    /\ call' = [op |-> "options", arg |-> 0]
    /\ ret' = CommandDefinition_options(def)
    /\ invoked' = <<>>
    /\ UNCHANGED <<inputs, built_opts, def, panicked>>

GetOption(name) ==
    /\ ~panicked
    /\ def # NoDef
    /\ call' = [op |-> "get_option", arg |-> name]
    /\ ret' = get_option(def, name)
    /\ invoked' = <<>>
    /\ UNCHANGED <<inputs, built_opts, def, panicked>>

Subcommand(name) ==
    /\ ~panicked
    /\ def # NoDef
    /\ call' = [op |-> "subcommand", arg |-> name]
    /\ ret' = subcommand(def, name)
    /\ invoked' = <<>>
    /\ UNCHANGED <<inputs, built_opts, def, panicked>>

Arguments ==
    /\ ~panicked
    /\ def # NoDef
    /\ call' = [op |-> "arguments", arg |-> 0]
    /\ ret' = arguments(def)
    /\ invoked' = <<>>
    /\ UNCHANGED <<inputs, built_opts, def, panicked>>

Run(req) ==
    /\ ~panicked
    /\ def # NoDef
    /\ call' = [op |-> "run", arg |-> req]
    /\ ret' = run(def, req).result
    /\ invoked' = run(def, req).invoked
    /\ UNCHANGED <<inputs, built_opts, def, panicked>>

Next ==
    \/ NewBool
    \/ \E i \in 1..MaxOpts : OptName(i)
    \/ New
    \/ Options
    \/ \E name \in OptLookups : GetOption(name)
    \/ \E name \in SubLookups : Subcommand(name)
    \/ Arguments
    \/ \E req \in Requests : Run(req)

---------------------------------------------------------------------------
(* Specifications: one per input that is varied *)

DefaultNames == << <<"h", "help">> >>
DefaultArguments == << Argument_new_file("path", TRUE, FALSE, Desc) >>
DefaultSubcommands == << Command("add", 1) >>
DefaultRun == [req \in Requests |-> Ok]

ArgumentValues ==
    {Argument_new_file("path", r, v, Desc) : r \in BOOLEAN, v \in BOOLEAN}
    \cup {Argument_new_string("path", r, v, Desc) : r \in BOOLEAN, v \in BOOLEAN}
RunResults == {Ok, Err("disk full"), Err("")}

InitRest ==
    /\ built_opts = <<>>
    /\ def = NoDef
    /\ panicked = FALSE
    /\ call = NoCall
    /\ ret = Unit
    /\ invoked = <<>>

\* one Opt, built from any alias list, the empty one included
InitOpt ==
    /\ names_in \in {<<ns>> : ns \in SeqsOf(AliasNames, 0, MaxNames)}
    /\ arguments_in = DefaultArguments
    /\ subcommands_in = DefaultSubcommands
    /\ run_in = DefaultRun
    /\ InitRest

\* a definition over any list of Opts
InitOptions ==
    /\ names_in \in SeqsOf(SeqsOf(OptAliases, 1, MaxOptNames), 0, MaxOpts)
    /\ arguments_in = DefaultArguments
    /\ subcommands_in = DefaultSubcommands
    /\ run_in = DefaultRun
    /\ InitRest

\* a definition over any list of subcommands, each box its own object
InitSub ==
    /\ names_in = DefaultNames
    /\ arguments_in = DefaultArguments
    /\ subcommands_in \in {[i \in 1..Len(ns) |-> Command(ns[i], i)] :
                              ns \in SeqsOf(SubNames, 0, MaxSubs)}
    /\ run_in = DefaultRun
    /\ InitRest

\* a definition over any list of Arguments
InitArgs ==
    /\ names_in = DefaultNames
    /\ arguments_in \in SeqsOf(ArgumentValues, 0, MaxArgs)
    /\ subcommands_in = DefaultSubcommands
    /\ run_in = DefaultRun
    /\ InitRest

\* a definition with any callback
InitRun ==
    /\ names_in = DefaultNames
    /\ arguments_in = DefaultArguments
    /\ subcommands_in = DefaultSubcommands
    /\ run_in \in [Requests -> RunResults]
    /\ InitRest

Init == InitOpt \/ InitOptions \/ InitSub \/ InitArgs \/ InitRun

SpecOpt == InitOpt /\ [][Next]_vars
SpecOptions == InitOptions /\ [][Next]_vars
SpecSub == InitSub /\ [][Next]_vars
SpecArgs == InitArgs /\ [][Next]_vars
SpecRun == InitRun /\ [][Next]_vars
Spec == Init /\ [][Next]_vars

---------------------------------------------------------------------------
(* Properties *)

Range(s) == {s[i] : i \in 1..Len(s)}
Min(S) == CHOOSE i \in S : \A j \in S : i <= j
Max(S) == CHOOSE i \in S : \A j \in S : j <= i
\* the elements of s of length n, in the order of s
OfLen(s, n) == LET Is(x) == Len(x) = n IN SelectSeq(s, Is)
Occurrences(s, x) == Cardinality({i \in 1..Len(s) : s[i] = x})
\* the Opts of the definition that declare alias a
Owners(a) == {i \in 1..Len(built_opts) : a \in Range(built_opts[i].names)}
\* the positions of the supplied subcommands named n
Registered(n) == {i \in 1..Len(subcommands_in) : subcommands_in[i].name = n}
\* the number of aliases of the Opts before the i-th
RECURSIVE AliasesBefore(_)
AliasesBefore(i) ==
    IF i <= 1 THEN 0 ELSE AliasesBefore(i - 1) + Len(built_opts[i - 1].names)

\* C1: the canonical name of every Opt built, as the field holds it and as
\* name() returns it, is the first alias of the list as supplied, wherever
\* the sort puts that alias in names.
C1_CanonicalIsFirstSupplied ==
    /\ \A i \in 1..Len(built_opts) : built_opts[i].name = names_in[i][1]
    /\ call.op = "Opt::name" => ret = names_in[call.arg][1]

\* name() was called on an Opt whose first supplied alias is not first in names
C1_Witness ==
    /\ call.op = "Opt::name"
    /\ built_opts[call.arg].names[1] # names_in[call.arg][1]
    /\ ret = names_in[call.arg][1]

\* C2 as stated: the canonical name of every Opt built is names[0] after
\* construction, the shortest of the declared aliases.
C2_CanonicalIsShortest ==
    \A i \in 1..Len(built_opts) :
        /\ built_opts[i].name = built_opts[i].names[1]
        /\ \A k \in 1..Len(names_in[i]) :
              Len(built_opts[i].name) <= Len(names_in[i][k])

\* C2 as amended: the canonical name is the first alias as declared; it is
\* names[0] after construction (the shortest alias, the first declared among
\* the equally short) exactly when no declared alias is strictly shorter than
\* the first declared one.
C2_CanonicalIsShortestIffFirstIs ==
    \A i \in 1..Len(built_opts) :
        /\ built_opts[i].name = names_in[i][1]
        /\ built_opts[i].name = built_opts[i].names[1]
              <=> \A k \in 1..Len(names_in[i]) :
                     Len(names_in[i][1]) <= Len(names_in[i][k])

\* an Opt was built whose canonical name is not its shortest alias
C2_Witness ==
    \E i \in 1..Len(built_opts) :
        /\ built_opts[i].name # built_opts[i].names[1]
        /\ Len(built_opts[i].names[1]) < Len(built_opts[i].name)

\* C3: names of every Opt built is a permutation of the supplied aliases,
\* non-decreasing by length, with aliases of equal length in their supplied
\* relative order.
C3_NamesStablySortedByLength ==
    \A i \in 1..Len(built_opts) :
        LET out == built_opts[i].names
            inp == names_in[i]
        IN  /\ Len(out) = Len(inp)
            /\ \A x \in Range(inp) \cup Range(out) :
                  Occurrences(out, x) = Occurrences(inp, x)
            /\ \A j \in 1..Len(out), k \in 1..Len(out) :
                  j < k => Len(out[j]) <= Len(out[k])
            /\ \A n \in {Len(x) : x \in Range(inp)} : OfLen(out, n) = OfLen(inp, n)

\* an Opt was built whose aliases the sort moved, two distinct ones of equal
\* length among them
C3_Witness ==
    \E i \in 1..Len(built_opts) :
        /\ built_opts[i].names # names_in[i]
        /\ \E j \in 1..Len(names_in[i]), k \in 1..Len(names_in[i]) :
              /\ j < k
              /\ names_in[i][j] # names_in[i][k]
              /\ Len(names_in[i][j]) = Len(names_in[i][k])

\* C4: Opt::new_bool on an empty alias list panics and builds no Opt; every
\* Opt built has a non-empty names that holds its canonical name.
C4_EmptyAliasListRejected ==
    /\ \A i \in 1..Len(built_opts) :
          /\ built_opts[i].names # <<>>
          /\ built_opts[i].name \in Range(built_opts[i].names)
    /\ (call.op = "Opt::new_bool" /\ names_in[call.arg] = <<>>)
          => /\ panicked
             /\ ret = Panic
             /\ Len(built_opts) = call.arg - 1
    /\ panicked => def = NoDef

\* Opt::new_bool was called on an empty alias list
C4_Witness ==
    /\ call.op = "Opt::new_bool"
    /\ names_in[call.arg] = <<>>
    /\ panicked
    /\ built_opts = <<>>

C6_LaterSubcommandWins ==
    /\ call.op = "CommandDefinition::new" => def # NoDef /\ ~panicked
    /\ def # NoDef =>
          \A i \in 1..Len(subcommands_in) :
              LET n == subcommands_in[i].name
              IN  /\ Cardinality({e \in def.subcommands : e[1] = n}) = 1
                  /\ \E e \in def.subcommands :
                        e = <<n, subcommands_in[Max(Registered(n))]>>
    /\ (call.op = "subcommand" /\ Registered(call.arg) # {})
          => ret = Some(subcommands_in[Max(Registered(call.arg))])

\* subcommand was called with a name two supplied subcommands share
C6_Witness ==
    /\ call.op = "subcommand"
    /\ Cardinality(Registered(call.arg)) = 2
    /\ ret = Some(subcommands_in[2])
    /\ ret # Some(subcommands_in[1])

\* C7: subcommand(name) returns a command only when name equals the name of a
\* supplied subcommand, and then one supplied under exactly that name; for
\* every other name it returns none.
C7_SubcommandExactMatch ==
    call.op = "subcommand" =>
        IF Registered(call.arg) = {}
        THEN ret = None
        ELSE /\ ret.some
             /\ Command_name(ret.val) = call.arg
             /\ ret.val \in {subcommands_in[i] : i \in Registered(call.arg)}

\* subcommand was called with a prefix, an extension or another case of the
\* only registered name
C7_Witness ==
    /\ call.op = "subcommand"
    /\ call.arg \in {"ad", "adds", "ADD"}
    /\ Registered("add") # {}
    /\ Registered(call.arg) = {}
    /\ ret = None

\* C8: options() returns, Opt after Opt in the order of the definition's
\* Opts, one pair per alias of the Opt in the order of names, each pair
\* holding the alias and the Opt that owns it; its length is the sum of the
\* sizes of the names of all Opts.
C8_OptionsOnePairPerAlias ==
    call.op = "options" =>
        /\ Len(ret) = AliasesBefore(Len(built_opts) + 1)
        /\ \A i \in 1..Len(built_opts) :
              \A k \in 1..Len(built_opts[i].names) :
                  ret[AliasesBefore(i) + k] = <<built_opts[i].names[k], i>>
        /\ \A p \in 1..Len(ret) : ret[p][1] \in Range(def.options[ret[p][2]].names)

\* options() was called on a definition of two Opts, one with two aliases
C8_Witness ==
    /\ call.op = "options"
    /\ Len(built_opts) = 2
    /\ Len(built_opts[1].names) = 2
    /\ Len(ret) > 2

\* C9: run invokes the stored callback once, with the Request given, and
\* returns what the callback returned: success as success, an error string
\* as that string; the definition stays what construction made it.
C9_RunPropagatesCallbackResult ==
    call.op = "run" =>
        /\ invoked = <<call.arg>>
        /\ ret = run_in[call.arg]
        /\ run_in[call.arg] = Ok => ret.ok
        /\ \A s \in {"disk full", ""} : run_in[call.arg] = Err(s) => ret.err = s
        /\ def = with_run(CommandDefinition_new(CmdName, built_opts, arguments_in,
                                                HelpTextValue, subcommands_in),
                          run_in)

\* run was called and the callback returned the error "disk full"
C9_Witness ==
    /\ call.op = "run"
    /\ run_in[call.arg] = Err("disk full")
    /\ ret = Err("disk full")

\* C10: CommandDefinition::new accepts every sequence of Arguments and stores
\* it as supplied; arguments() returns the supplied sequence in its order.
C10_ArgumentsStoredAsSupplied ==
    /\ call.op = "CommandDefinition::new" =>
          def # NoDef /\ ~panicked /\ def.arguments = arguments_in
    /\ call.op = "arguments" => ret = arguments_in

\* arguments() was called on a definition whose first argument is variadic and
\* optional and whose second is required
C10_Witness ==
    /\ call.op = "arguments"
    /\ Len(arguments_in) = 2
    /\ arguments_in[1].variadic
    /\ ~arguments_in[1].required
    /\ arguments_in[2].required
    /\ ret = arguments_in

===========================================================================
